---- MODULE Spec2Model ----
(***************************************************************************)
(* Days-to-hire statistics: the batch pipeline of                          *)
(* src/home_task/cli/days_to_hire.py over the tables of                    *)
(* src/home_task/models.py.                                                *)
(*                                                                         *)
(* Representation choices:                                                 *)
(*  - Python None / SQL NULL in a string column is the string None below;  *)
(*    an Optional[int] column is a sequence of length 0 (NULL) or 1.       *)
(*  - A Python float is an exact rational [n, d] in lowest terms with      *)
(*    d > 0.  Inputs are small non-negative integers, for which numpy's    *)
(*    interpolation and mean round monotonically, so every comparison the  *)
(*    code makes has the outcome of the exact comparison.                  *)
(*  - uuid.uuid4() is a fresh value taken from a counter.                  *)
(***************************************************************************)
EXTENDS Integers, Sequences, FiniteSets, TLC

VARIABLES
    job_posting,          \* table public.job_posting (the source data)
    job_posting_stats,    \* table public.job_posting_stats (committed rows)
    next_uuid,            \* source of fresh identifiers
    pc,                   \* position of main: idle, running, completed, failed
    args,                 \* parsed command line of the current run
    standard_jobs,        \* main: list of jobs to process
    countries,            \* main: list of countries to process
    job_idx,              \* main: position of the outer loop
    country_idx,          \* main: position of the inner loop
    total_processed,      \* main: counter
    total_saved,          \* main: counter
    session,              \* the SQL session: state and calls received
    runs,                 \* number of runs started so far
    last_pair,            \* arguments of the last process_job_postings call
    days_to_hire_values,  \* its local days_to_hire_values
    stats,                \* its local result of calculate_stats, if called
    saved,                \* its return value
    raised,               \* the storage operation that raised in it, or "none"
    processed_pairs,      \* pairs handed to process_job_postings this run
    full_runs,            \* the latest consecutive completed unrestricted runs (at most two)
    api_response,         \* the request and the answer of the read served in the last step, if it was one
    connections           \* the storage connections of a run that processes its pairs concurrently

vars == <<job_posting, job_posting_stats, next_uuid, pc, args, standard_jobs,
          countries, job_idx, country_idx, total_processed, total_saved,
          session, runs, last_pair, days_to_hire_values, stats, saved,
          raised, processed_pairs, full_runs, api_response, connections>>

----------------------------------------------------------------------------
(* Bounds of the model *)

MaxRuns == 2
MaxFairRuns == 1
MaxThreshold == 2
MaxLen == 4
MaxVal == 2

----------------------------------------------------------------------------
(* Values *)

None == "None"
World == "World"

\* the postings the source table is drawn from:
\* <<standard_job_id, country_code, days_to_hire>>
Posting(j, c, d) == [standard_job_id |-> j, country_code |-> c, days_to_hire |-> d]

AllPostings ==
    << Posting("j1", "A", <<1>>),
       Posting("j1", "A", <<2>>),
       Posting("j1", None, <<2>>),
       Posting("j2", "B", <<>>),
       Posting("j2", "B", <<1>>),
       Posting("j1", "B", <<2>>) >>

\* the source table holds the first postings of AllPostings
SourceTables == { SubSeq(AllPostings, 1, n) : n \in 0..Len(AllPostings) }

JobArgs == {None, "j1"}
CountryArgs == {None, "A", World}

----------------------------------------------------------------------------
(* Floats *)

RECURSIVE GCD(_, _)
GCD(a, b) == IF b = 0 THEN a ELSE GCD(b, a % b)

Rat(n, d) == LET g == GCD(n, d) IN [n |-> n \div g, d |-> d \div g]
Float(i) == [n |-> i, d |-> 1]
FloatLeq(x, y) == x.n * y.d <= y.n * x.d

----------------------------------------------------------------------------
(* Queries on the source table *)

RECURSIVE Distinct(_)
\* the distinct values of a column, in order of first appearance
Distinct(col) ==
    IF col = <<>> THEN <<>>
    ELSE LET h == Head(col)
         IN <<h>> \o Distinct(SelectSeq(Tail(col), LAMBDA x : x # h))

\* the columns a query selects
StandardJobIdColumn(table) == [i \in 1..Len(table) |-> table[i].standard_job_id]
CountryCodeColumn(table) == [i \in 1..Len(table) |-> table[i].country_code]
DaysToHireColumn(table) == [i \in 1..Len(table) |-> table[i].days_to_hire[1]]

get_standard_job_ids(table) ==
    Distinct(StandardJobIdColumn(table))

\* get_country_codes without the NULL filter
get_country_codes_with_null(table) ==
    Distinct(CountryCodeColumn(table))

get_country_codes(table) ==
    Distinct(CountryCodeColumn(SelectSeq(table, LAMBDA row : row.country_code # None)))

\* get_job_postings_data where a None country selects the postings without country
get_job_postings_data_null_country(table, standard_job_id, country_code) ==
    LET query == SelectSeq(table, LAMBDA row :
                     /\ row.standard_job_id = standard_job_id
                     /\ row.days_to_hire # <<>>)
        filtered == SelectSeq(query, LAMBDA row : row.country_code = country_code)
    IN DaysToHireColumn(filtered)

get_job_postings_data(table, standard_job_id, country_code) ==
    LET query == SelectSeq(table, LAMBDA row :
                     /\ row.standard_job_id = standard_job_id
                     /\ row.days_to_hire # <<>>)
        filtered == IF country_code # None
                    THEN SelectSeq(query, LAMBDA row : row.country_code = country_code)
                    ELSE query
    IN DaysToHireColumn(filtered)

----------------------------------------------------------------------------
(* calculate_stats *)

RECURSIVE Insert(_, _)
Insert(v, sorted) ==
    IF sorted = <<>> THEN <<v>>
    ELSE IF v <= Head(sorted) THEN <<v>> \o sorted
    ELSE <<Head(sorted)>> \o Insert(v, Tail(sorted))

RECURSIVE Sort(_)
Sort(values) == IF values = <<>> THEN <<>> ELSE Insert(Head(values), Sort(Tail(values)))

\* np.percentile with method "lower": no interpolation
np_percentile_lower(values, q) ==
    LET arr == Sort(values)
        n == Len(arr)
        lo == (q * (n - 1)) \div 100
    IN Rat(arr[lo + 1] * 100, 100)

\* np.percentile(values, q), default method "linear":
\* virtual index q/100 * (n-1) into the sorted array, interpolated
np_percentile(values, q) ==
    LET arr == Sort(values)
        n == Len(arr)
        scaled == q * (n - 1)
        lo == scaled \div 100
        gamma == scaled % 100               \* fractional part, in hundredths
        hi == IF lo + 1 <= n - 1 THEN lo + 1 ELSE n - 1
    IN Rat(arr[lo + 1] * 100 + (arr[hi + 1] - arr[lo + 1]) * gamma, 100)

RECURSIVE np_min(_)
np_min(values) ==
    IF Len(values) = 1 THEN values[1]
    ELSE LET m == np_min(Tail(values)) IN IF Head(values) < m THEN Head(values) ELSE m

RECURSIVE np_max(_)
np_max(values) ==
    IF Len(values) = 1 THEN values[1]
    ELSE LET m == np_max(Tail(values)) IN IF Head(values) > m THEN Head(values) ELSE m

RECURSIVE np_sum(_)
np_sum(values) == IF values = <<>> THEN 0 ELSE Head(values) + np_sum(Tail(values))

np_mean(values) == Rat(np_sum(values), Len(values))

StatsTuple(mn, avg, mx, cnt) ==
    [min_days |-> mn, avg_days |-> avg, max_days |-> mx, count |-> cnt]

ZeroStats == StatsTuple(Float(0), Float(0), Float(0), 0)

\* calculate_stats with the mean taken over the unfiltered values
calculate_stats_mean_of_input(values) ==
    IF Len(values) = 0 THEN ZeroStats
    ELSE LET p10 == np_percentile(values, 10)
             p90 == np_percentile(values, 90)
             filtered_values == SelectSeq(values, LAMBDA v :
                                    FloatLeq(p10, Float(v)) /\ FloatLeq(Float(v), p90))
         IN IF Len(filtered_values) = 0 THEN ZeroStats
            ELSE StatsTuple(Float(np_min(filtered_values)),
                            np_mean(values),
                            Float(np_max(filtered_values)),
                            Len(filtered_values))

\* calculate_stats with a band that excludes its lower bound
calculate_stats_exclusive(values) ==
    IF Len(values) = 0 THEN ZeroStats
    ELSE LET p10 == np_percentile(values, 10)
             p90 == np_percentile(values, 90)
             filtered_values == SelectSeq(values, LAMBDA v :
                                    ~FloatLeq(Float(v), p10) /\ FloatLeq(Float(v), p90))
         IN IF Len(filtered_values) = 0 THEN ZeroStats
            ELSE StatsTuple(Float(np_min(filtered_values)),
                            np_mean(filtered_values),
                            Float(np_max(filtered_values)),
                            Len(filtered_values))

calculate_stats(values) ==
    IF Len(values) = 0 THEN ZeroStats
    ELSE LET p10 == np_percentile(values, 10)
             p90 == np_percentile(values, 90)
             filtered_values == SelectSeq(values, LAMBDA v :
                                    FloatLeq(p10, Float(v)) /\ FloatLeq(Float(v), p90))
         IN IF Len(filtered_values) = 0 THEN ZeroStats
            ELSE StatsTuple(Float(np_min(filtered_values)),
                            np_mean(filtered_values),
                            Float(np_max(filtered_values)),
                            Len(filtered_values))

----------------------------------------------------------------------------
(* The stats table and the session *)

StatsRow(id, j, c, st) ==
    [id |-> id, standard_job_id |-> j, country_code |-> c,
     min_days |-> st.min_days, avg_days |-> st.avg_days,
     max_days |-> st.max_days, job_postings_number |-> st.count]

\* the filter of save_stats' query without its condition on the country
stats_filter_job_only(row, standard_job_id, country_code) ==
    row.standard_job_id = standard_job_id

\* the filter of save_stats' query: a None country compiles to IS NULL
stats_filter(row, standard_job_id, country_code) ==
    /\ row.standard_job_id = standard_job_id
    /\ row.country_code = country_code

\* what .first() may return: the index of any matching row, 0 when there is none
first(table, standard_job_id, country_code) ==
    LET matching == {i \in 1..Len(table) :
                        stats_filter(table[i], standard_job_id, country_code)}
    IN IF matching = {} THEN {0} ELSE matching

\* save_stats storing the country as it was passed
save_stats_country_as_passed(table, standard_job_id, country_code, st, existing_stats, uuid) ==
    IF existing_stats # 0
    THEN [table EXCEPT ![existing_stats] =
              [@ EXCEPT !.min_days = st.min_days, !.avg_days = st.avg_days,
                        !.max_days = st.max_days, !.job_postings_number = st.count]]
    ELSE Append(table, StatsRow(uuid, standard_job_id, country_code, st))

\* save_stats giving the row a new identifier when it updates it
save_stats_new_id_on_update(table, standard_job_id, country_code, st, existing_stats, uuid) ==
    IF existing_stats # 0
    THEN [table EXCEPT ![existing_stats] =
              [@ EXCEPT !.id = uuid,
                        !.min_days = st.min_days, !.avg_days = st.avg_days,
                        !.max_days = st.max_days, !.job_postings_number = st.count]]
    ELSE Append(table, StatsRow(uuid, standard_job_id,
                                IF country_code # None THEN country_code ELSE World,
                                st))

\* the session's view of the table after save_stats' assignments or add
save_stats(table, standard_job_id, country_code, st, existing_stats, uuid) ==
    IF existing_stats # 0
    THEN [table EXCEPT ![existing_stats] =
              [@ EXCEPT !.min_days = st.min_days, !.avg_days = st.avg_days,
                        !.max_days = st.max_days, !.job_postings_number = st.count]]
    ELSE Append(table, StatsRow(uuid, standard_job_id,
                                IF country_code # None THEN country_code ELSE World,
                                st))

session_commit(committed, pending) == pending
\* a rollback that leaves the pending changes in place
session_rollback_keeps_pending(committed, pending) == pending
session_rollback(committed, pending) == committed

\* process_job_postings saving the raw sample size as the count
process_job_postings_raw_count(table, source, standard_job_id, country_code, min_threshold, existing_stats, uuid) ==
    LET values == get_job_postings_data(source, standard_job_id, country_code)
        st == calculate_stats(values)
    IN IF Len(values) < min_threshold
       THEN [values |-> values, stats |-> <<>>, saved |-> FALSE, table |-> table]
       ELSE IF st.count < min_threshold
       THEN [values |-> values, stats |-> <<st>>, saved |-> FALSE, table |-> table]
       ELSE [values |-> values, stats |-> <<st>>, saved |-> TRUE,
             table |-> save_stats(table, standard_job_id, country_code,
                                  [st EXCEPT !.count = Len(values)],
                                  existing_stats, uuid)]

\* process_job_postings without the check of the trimmed count
process_job_postings_raw_gate_only(table, source, standard_job_id, country_code, min_threshold, existing_stats, uuid) ==
    LET values == get_job_postings_data(source, standard_job_id, country_code)
        st == calculate_stats(values)
    IN IF Len(values) < min_threshold
       THEN [values |-> values, stats |-> <<>>, saved |-> FALSE, table |-> table]
       ELSE [values |-> values, stats |-> <<st>>, saved |-> TRUE,
             table |-> save_stats(table, standard_job_id, country_code, st,
                                  existing_stats, uuid)]

\* process_job_postings whose raw-size check also rejects a sample of exactly the threshold
process_job_postings_raw_gate_inclusive(table, source, standard_job_id, country_code, min_threshold, existing_stats, uuid) ==
    LET values == get_job_postings_data(source, standard_job_id, country_code)
        st == calculate_stats(values)
    IN IF Len(values) <= min_threshold
       THEN [values |-> values, stats |-> <<>>, saved |-> FALSE, table |-> table]
       ELSE IF st.count < min_threshold
       THEN [values |-> values, stats |-> <<st>>, saved |-> FALSE, table |-> table]
       ELSE [values |-> values, stats |-> <<st>>, saved |-> TRUE,
             table |-> save_stats(table, standard_job_id, country_code, st,
                                  existing_stats, uuid)]

\* process_job_postings: the locals it computes, its return value and the
\* session's view of the stats table when it returns
process_job_postings(table, source, standard_job_id, country_code, min_threshold, existing_stats, uuid) ==
    LET values == get_job_postings_data(source, standard_job_id, country_code)
        st == calculate_stats(values)
    IN IF Len(values) < min_threshold
       THEN [values |-> values, stats |-> <<>>, saved |-> FALSE, table |-> table]
       ELSE IF st.count < min_threshold
       THEN [values |-> values, stats |-> <<st>>, saved |-> FALSE, table |-> table]
       ELSE [values |-> values, stats |-> <<st>>, saved |-> TRUE,
             table |-> save_stats(table, standard_job_id, country_code, st,
                                  existing_stats, uuid)]

----------------------------------------------------------------------------
(* main *)

NoArgs == [min_threshold |-> 0, standard_job_id |-> None, country_code |-> None]
\* calls: the commit, rollback and close calls the session has completed
NewSession == [open |-> TRUE, rollbacks |-> 0, closes |-> 0, calls |-> <<>>]
NoSession == [open |-> FALSE, rollbacks |-> 0, closes |-> 0, calls |-> <<>>]

\* no run processes its pairs concurrently
NoConnections == [start |-> <<>>, interleaved |-> FALSE, tasks |-> <<>>]

Init ==
    /\ job_posting \in SourceTables
    /\ job_posting_stats = <<>>
    /\ next_uuid = 1
    /\ pc = "idle"
    /\ args = NoArgs
    /\ standard_jobs = <<>>
    /\ countries = <<>>
    /\ job_idx = 1
    /\ country_idx = 1
    /\ total_processed = 0
    /\ total_saved = 0
    /\ session = NoSession
    /\ runs = 0
    /\ last_pair = <<>>
    /\ days_to_hire_values = <<>>
    /\ stats = <<>>
    /\ saved = FALSE
    /\ raised = "none"
    /\ processed_pairs = <<>>
    /\ full_runs = <<>>
    /\ api_response = <<>>
    /\ connections = NoConnections

\* lines 111-138: parse the arguments, open the session, list jobs and countries
MainStart(min_threshold, standard_job_id, country_code) ==
    /\ pc \in {"idle", "completed", "failed"}
    /\ runs < MaxRuns
    /\ runs' = runs + 1
    /\ args' = [min_threshold |-> min_threshold,
                standard_job_id |-> standard_job_id,
                country_code |-> country_code]
    /\ session' = NewSession
    /\ standard_jobs' = IF standard_job_id # None THEN <<standard_job_id>>
                        ELSE get_standard_job_ids(job_posting)
    /\ countries' = IF country_code # None THEN <<country_code>>
                    ELSE get_country_codes(job_posting)
    /\ total_processed' = 0
    /\ total_saved' = 0
    /\ job_idx' = 1
    /\ country_idx' = 1
    /\ pc' = "running"
    /\ processed_pairs' = <<>>
    /\ last_pair' = <<>>
    /\ days_to_hire_values' = <<>>
    /\ stats' = <<>>
    /\ saved' = FALSE
    /\ raised' = "none"
    /\ api_response' = <<>>
    /\ UNCHANGED connections
    /\ UNCHANGED <<job_posting, job_posting_stats, next_uuid, full_runs>>

\* the bookkeeping counting every processed pair as saved
ProcessPair_counts_every_pair(standard_job_id, country_code) ==
    \E existing_stats \in first(job_posting_stats, standard_job_id, country_code) :
        LET r == process_job_postings(job_posting_stats, job_posting, standard_job_id,
                                      country_code, args.min_threshold,
                                      existing_stats, next_uuid)
        IN /\ total_processed' = total_processed + 1
           /\ total_saved' = total_saved + 1
           /\ job_posting_stats' = IF r.saved
                                   THEN session_commit(job_posting_stats, r.table)
                                   ELSE job_posting_stats
           /\ session' = IF r.saved
                         THEN [session EXCEPT !.calls = Append(@, "commit")]
                         ELSE session
           /\ next_uuid' = IF r.saved /\ existing_stats = 0
                           THEN next_uuid + 1 ELSE next_uuid
           /\ last_pair' = <<standard_job_id, country_code>>
           /\ days_to_hire_values' = r.values
           /\ stats' = r.stats
           /\ saved' = r.saved
           /\ raised' = "none"
           /\ processed_pairs' = Append(processed_pairs, <<standard_job_id, country_code>>)

\* one call of process_job_postings from the loops, with its bookkeeping
ProcessPair(standard_job_id, country_code) ==
    \E existing_stats \in first(job_posting_stats, standard_job_id, country_code) :
        LET r == process_job_postings(job_posting_stats, job_posting, standard_job_id,
                                      country_code, args.min_threshold,
                                      existing_stats, next_uuid)
        IN /\ total_processed' = total_processed + 1
           /\ total_saved' = IF r.saved THEN total_saved + 1 ELSE total_saved
           /\ job_posting_stats' = IF r.saved
                                   THEN session_commit(job_posting_stats, r.table)
                                   ELSE job_posting_stats
           /\ session' = IF r.saved
                         THEN [session EXCEPT !.calls = Append(@, "commit")]
                         ELSE session
           /\ next_uuid' = IF r.saved /\ existing_stats = 0
                           THEN next_uuid + 1 ELSE next_uuid
           /\ last_pair' = <<standard_job_id, country_code>>
           /\ days_to_hire_values' = r.values
           /\ stats' = r.stats
           /\ saved' = r.saved
           /\ raised' = "none"
           /\ processed_pairs' = Append(processed_pairs, <<standard_job_id, country_code>>)

\* the inner loop walking the countries from the last to the first
MainCountry_reversed ==
    /\ pc = "running"
    /\ job_idx <= Len(standard_jobs)
    /\ country_idx <= Len(countries)
    /\ ProcessPair(standard_jobs[job_idx], countries[Len(countries) - country_idx + 1])
    /\ IF country_idx = Len(countries) /\ args.country_code # None
       THEN job_idx' = job_idx + 1 /\ country_idx' = 1
       ELSE job_idx' = job_idx /\ country_idx' = country_idx + 1
    /\ api_response' = <<>>
    /\ UNCHANGED connections
    /\ UNCHANGED <<job_posting, pc, args, standard_jobs, countries, runs, full_runs>>

\* lines 143-148: one iteration of the inner loop
MainCountry ==
    /\ pc = "running"
    /\ job_idx <= Len(standard_jobs)
    /\ country_idx <= Len(countries)
    /\ ProcessPair(standard_jobs[job_idx], countries[country_idx])
    /\ IF country_idx = Len(countries) /\ args.country_code # None
       THEN job_idx' = job_idx + 1 /\ country_idx' = 1
       ELSE job_idx' = job_idx /\ country_idx' = country_idx + 1
    /\ api_response' = <<>>
    /\ UNCHANGED connections
    /\ UNCHANGED <<job_posting, pc, args, standard_jobs, countries, runs, full_runs>>

\* lines 150-157: the world statistics of the current job
MainWorld ==
    /\ pc = "running"
    /\ job_idx <= Len(standard_jobs)
    /\ country_idx = Len(countries) + 1
    /\ args.country_code = None
    /\ ProcessPair(standard_jobs[job_idx], None)
    /\ job_idx' = job_idx + 1
    /\ country_idx' = 1
    /\ api_response' = <<>>
    /\ UNCHANGED connections
    /\ UNCHANGED <<job_posting, pc, args, standard_jobs, countries, runs, full_runs>>

\* the end of main without the close of the session
MainCompleted_without_close ==
    /\ pc = "running"
    /\ job_idx > Len(standard_jobs)
    /\ pc' = "completed"
    /\ full_runs' =
           IF args.standard_job_id = None /\ args.country_code = None
           THEN LET all == Append(full_runs,
                                  [min_threshold |-> args.min_threshold,
                                   job_posting |-> job_posting,
                                   job_posting_stats |-> job_posting_stats])
                IN IF Len(all) > 2 THEN Tail(all) ELSE all
           ELSE <<>>
    /\ api_response' = <<>>
    /\ UNCHANGED connections
    /\ UNCHANGED <<job_posting, job_posting_stats, next_uuid, args, standard_jobs,
                   countries, job_idx, country_idx, total_processed, total_saved,
                   runs, last_pair, days_to_hire_values, stats, saved, raised,
                   processed_pairs, session>>

\* lines 159-162 and 169-170: report the totals, close the session
MainCompleted ==
    /\ pc = "running"
    /\ job_idx > Len(standard_jobs)
    /\ pc' = "completed"
    /\ session' = [session EXCEPT !.open = FALSE, !.closes = @ + 1,
                                  !.calls = Append(@, "close")]
    /\ full_runs' =
           IF args.standard_job_id = None /\ args.country_code = None
           THEN LET all == Append(full_runs,
                                  [min_threshold |-> args.min_threshold,
                                   job_posting |-> job_posting,
                                   job_posting_stats |-> job_posting_stats])
                IN IF Len(all) > 2 THEN Tail(all) ELSE all
           ELSE <<>>
    /\ api_response' = <<>>
    /\ UNCHANGED connections
    /\ UNCHANGED <<job_posting, job_posting_stats, next_uuid, args, standard_jobs,
                   countries, job_idx, country_idx, total_processed, total_saved,
                   runs, last_pair, days_to_hire_values, stats, saved, raised,
                   processed_pairs>>

\* lines 164-170: a storage operation of the current pair raises, at the
\* fetch (line 96), at save_stats' query (line 67) or at its commit
\* (lines 77, 90); main rolls back, re-raises and closes the session
MainStorageFailure(point) ==
    /\ pc = "running"
    /\ job_idx <= Len(standard_jobs)
    /\ country_idx <= Len(countries) \/ args.country_code = None
    /\ LET standard_job_id == standard_jobs[job_idx]
           country_code == IF country_idx <= Len(countries)
                           THEN countries[country_idx] ELSE None
       IN \E existing_stats \in first(job_posting_stats, standard_job_id, country_code) :
           LET r == process_job_postings(job_posting_stats, job_posting,
                                         standard_job_id, country_code,
                                         args.min_threshold, existing_stats, next_uuid)
           IN /\ point \in {"query", "commit"} => r.saved
              /\ days_to_hire_values' = IF point = "fetch" THEN <<>> ELSE r.values
              /\ stats' = IF point = "fetch" THEN <<>> ELSE r.stats
              /\ job_posting_stats' =
                     session_rollback(job_posting_stats,
                                      IF point = "commit" THEN r.table
                                      ELSE job_posting_stats)
              /\ last_pair' = <<standard_job_id, country_code>>
              /\ processed_pairs' = Append(processed_pairs,
                                           <<standard_job_id, country_code>>)
    /\ total_processed' = total_processed + 1
    /\ saved' = FALSE
    /\ raised' = point
    /\ pc' = "failed"
    /\ session' = [session EXCEPT !.open = FALSE, !.rollbacks = @ + 1,
                                  !.closes = @ + 1,
                                  !.calls = @ \o <<"rollback", "close">>]
    /\ full_runs' = <<>>
    /\ api_response' = <<>>
    /\ UNCHANGED connections
    /\ UNCHANGED <<job_posting, next_uuid, args, standard_jobs, countries, job_idx,
                   country_idx, total_saved, runs>>

\* another program adds a posting to the source table between two runs
PostingAdded ==
    /\ pc # "running"
    /\ Len(job_posting) < Len(AllPostings)
    /\ job_posting' = Append(job_posting, AllPostings[Len(job_posting) + 1])
    /\ api_response' = <<>>
    /\ UNCHANGED connections
    /\ UNCHANGED <<job_posting_stats, next_uuid, pc, args, standard_jobs, countries,
                   job_idx, country_idx, total_processed, total_saved, session, runs,
                   last_pair, days_to_hire_values, stats, saved, raised,
                   processed_pairs, full_runs>>

Next ==
    \/ \E t \in 0..MaxThreshold, j \in JobArgs, c \in CountryArgs : MainStart(t, j, c)
    \/ MainCountry
    \/ MainWorld
    \/ MainCompleted
    \/ \E point \in {"fetch", "query", "commit"} : MainStorageFailure(point)
    \/ PostingAdded

Spec == Init /\ [][Next]_vars

\* The runs on their own, for termination: main is a sequential program
\* that is being executed, so a loop step or the final report that can be
\* taken is taken.
NextFair ==
    \/ /\ runs < MaxFairRuns
       /\ \E t \in 0..MaxThreshold, j \in JobArgs, c \in CountryArgs : MainStart(t, j, c)
    \/ MainCountry
    \/ MainWorld
    \/ MainCompleted
    \/ \E point \in {"fetch", "query", "commit"} : MainStorageFailure(point)
    \/ PostingAdded

SpecFair ==
    Init /\ [][NextFair]_vars /\ WF_vars(MainCountry \/ MainWorld \/ MainCompleted)

----------------------------------------------------------------------------
(* The read service: get_days_to_hire_stats of src/home_task/api/api.py *)

DaysToHireStats(row) ==
    [standard_job_id |-> row.standard_job_id, country_code |-> row.country_code,
     min_days |-> row.min_days, avg_days |-> row.avg_days, max_days |-> row.max_days,
     job_postings_number |-> row.job_postings_number]

\* lines 33-41: the filter of the query
api_filter(row, standard_job_id, country_code) ==
    /\ row.standard_job_id = standard_job_id
    /\ IF country_code # None THEN row.country_code = country_code
       ELSE row.country_code = "World"

\* line 44: what .first() may return, 0 when no row matches
api_first(table, standard_job_id, country_code) ==
    LET matching == {i \in 1..Len(table) :
                        api_filter(table[i], standard_job_id, country_code)}
    IN IF matching = {} THEN {0} ELSE matching

\* lines 32-59: the body of the try; fault: the query raises
api_try(table, stats_row, fault) ==
    IF fault THEN [raised |-> "Exception", status |-> 0, body |-> <<>>]
    ELSE IF stats_row = 0
    THEN [raised |-> "HTTPException", status |-> 404, body |-> <<>>]
    ELSE [raised |-> "none", status |-> 200, body |-> <<DaysToHireStats(table[stats_row])>>]

\* the handlers turning every exception into the server error
api_except_all(outcome) ==
    IF outcome.raised # "none"
    THEN [raised |-> "HTTPException", status |-> 500, body |-> <<>>]
    ELSE outcome

\* lines 61-67: an HTTPException is re-raised, any other becomes the server error
api_except(outcome) ==
    IF outcome.raised = "HTTPException" THEN outcome
    ELSE IF outcome.raised = "Exception"
    THEN [raised |-> "HTTPException", status |-> 500, body |-> <<>>]
    ELSE outcome

get_days_to_hire_stats(table, stats_row, fault) ==
    api_except(api_try(table, stats_row, fault))

ApiJobs == {"j1"}
ApiCountries == {None, "A"}

\* a read request is served between two runs of the pipeline
ApiGet(standard_job_id, country_code, fault) ==
    /\ pc # "running"
    /\ \E stats_row \in api_first(job_posting_stats, standard_job_id, country_code) :
          LET answer == get_days_to_hire_stats(job_posting_stats, stats_row, fault)
          IN api_response' = <<[standard_job_id |-> standard_job_id,
                                country_code |-> country_code,
                                fault |-> fault,
                                status |-> answer.status,
                                body |-> answer.body]>>
    /\ UNCHANGED connections
    /\ UNCHANGED <<job_posting, job_posting_stats, next_uuid, pc, args, standard_jobs,
                   countries, job_idx, country_idx, total_processed, total_saved,
                   session, runs, last_pair, days_to_hire_values, stats, saved,
                   raised, processed_pairs, full_runs>>

NextApi ==
    \/ \E t \in 0..MaxThreshold, j \in JobArgs, c \in CountryArgs : MainStart(t, j, c)
    \/ MainCountry
    \/ MainWorld
    \/ MainCompleted
    \/ \E point \in {"fetch", "query", "commit"} : MainStorageFailure(point)
    \/ PostingAdded
    \/ \E j \in ApiJobs, c \in ApiCountries, fault \in BOOLEAN : ApiGet(j, c, fault)

SpecApi == Init /\ [][NextApi]_vars

----------------------------------------------------------------------------
(* Reference definitions used by the properties *)

\* The reference trimmed summary, stated over the positions of the input:
\* order statistics by counting, percentiles in hundredths.
RefOrderStat(values, k) ==
    CHOOSE v \in {values[i] : i \in DOMAIN values} :
        /\ Cardinality({i \in DOMAIN values : values[i] < v}) <= k
        /\ k < Cardinality({i \in DOMAIN values : values[i] <= v})

RefPercentile100(values, p) ==
    LET n == Len(values)
        lo == (p * (n - 1)) \div 100
        hundredths == (p * (n - 1)) % 100
        a == RefOrderStat(values, lo)
        b == RefOrderStat(values, IF lo + 1 < n THEN lo + 1 ELSE lo)
    IN 100 * a + (b - a) * hundredths

RefRetained(values) ==
    IF values = <<>> THEN {}
    ELSE {i \in DOMAIN values :
             /\ RefPercentile100(values, 10) <= 100 * values[i]
             /\ 100 * values[i] <= RefPercentile100(values, 90)}

RECURSIVE RefSum(_, _)
RefSum(values, positions) ==
    IF positions = {} THEN 0
    ELSE LET i == CHOOSE x \in positions : TRUE
         IN values[i] + RefSum(values, positions \ {i})

IsFloat(x, num, den) == x.d > 0 /\ x.n * den = num * x.d

IsRefSummary(r, values) ==
    LET kept == RefRetained(values)
    IN IF kept = {}
       THEN /\ IsFloat(r.min_days, 0, 1) /\ IsFloat(r.avg_days, 0, 1)
            /\ IsFloat(r.max_days, 0, 1) /\ r.count = 0
       ELSE /\ r.count = Cardinality(kept)
            /\ \E i \in kept : /\ IsFloat(r.min_days, values[i], 1)
                                /\ \A k \in kept : values[i] <= values[k]
            /\ \E i \in kept : /\ IsFloat(r.max_days, values[i], 1)
                                /\ \A k \in kept : values[k] <= values[i]
            /\ IsFloat(r.avg_days, RefSum(values, kept), Cardinality(kept))

----------------------------------------------------------------------------
(* Properties of the pipeline (checked under Spec) *)

Unrestricted == args.standard_job_id = None /\ args.country_code = None

\* the country a stats row carries for a pair
StoredCountry(country_code) == IF country_code = None THEN World ELSE country_code

\* a pair was handed to process_job_postings in this step
PairStep == Len(processed_pairs') = Len(processed_pairs) + 1

\* the stats row as the summary it holds
RowSummary(row) ==
    StatsTuple(row.min_days, row.avg_days, row.max_days, row.job_postings_number)

\* C1: storage holds at most one stats row per (job_category_id,
\* country_code) key, the World key included: an upsert for a key that has a
\* row updates it and adds no second one.
C1_OneRowPerKey ==
    \A i, k \in DOMAIN job_posting_stats :
        ( /\ job_posting_stats[i].standard_job_id = job_posting_stats[k].standard_job_id
          /\ job_posting_stats[i].country_code = job_posting_stats[k].country_code )
        => i = k

\* C2: an unrestricted run repeated with unchanged source data and the same
\* min_threshold leaves the stats storage exactly as it was after the first
\* run (same rows, identifiers, keys and numeric fields).
C2_RerunLeavesStorage ==
    ( /\ Len(full_runs) = 2
      /\ full_runs[1].min_threshold = full_runs[2].min_threshold
      /\ full_runs[1].job_posting = full_runs[2].job_posting )
    => full_runs[1].job_posting_stats = full_runs[2].job_posting_stats

\* five postings of one pair with the same duration, and four of them
ThresholdExample5 == [i \in 1..5 |-> Posting("j1", "A", <<3>>)]
ThresholdExample4 == SubSeq(ThresholdExample5, 1, 4)

\* C3: a pair processed with threshold t is upserted iff its raw sample size
\* is at least t and its trimmed sample_count is at least t, and the row
\* written carries the trimmed count and the trimmed min/avg/max; with t = 5
\* five raw values that all survive are saved with count 5, four are skipped.
C3_ThresholdGate ==
    /\ (pc \in {"running", "completed"} /\ last_pair # <<>>) =>
          LET t == args.min_threshold
              values == days_to_hire_values
              trimmed == Cardinality(RefRetained(values))
          IN /\ saved <=> (Len(values) >= t /\ trimmed >= t)
             /\ saved =>
                   \E i \in DOMAIN job_posting_stats :
                       /\ job_posting_stats[i].standard_job_id = last_pair[1]
                       /\ job_posting_stats[i].country_code = StoredCountry(last_pair[2])
                       /\ job_posting_stats[i].job_postings_number = trimmed
                       /\ IsRefSummary(RowSummary(job_posting_stats[i]), values)
    /\ LET five == process_job_postings(<<>>, ThresholdExample5, "j1", "A", 5, 0, 1)
           four == process_job_postings(<<>>, ThresholdExample4, "j1", "A", 5, 0, 1)
       IN /\ five.saved /\ Len(five.table) = 1
          /\ five.table[1].job_postings_number = 5
          /\ ~four.saved /\ four.table = <<>>

\* a saved pair whose trimmed count is below its raw size
C3_Witness ==
    /\ pc = "running"
    /\ saved
    /\ stats # <<>>
    /\ stats[1].count < Len(days_to_hire_values)
    /\ args.min_threshold = stats[1].count

\* C4: processing a pair that fails the threshold (raw or trimmed count
\* below min_threshold) leaves the whole stats storage unchanged, a row of
\* that pair from an earlier run included; no error is raised and the run
\* goes on.
C4_SkipLeavesStorage ==
    [][ ( /\ PairStep
          /\ raised' = "none"
          /\ \/ Len(days_to_hire_values') < args.min_threshold
             \/ Cardinality(RefRetained(days_to_hire_values')) < args.min_threshold )
        => /\ job_posting_stats' = job_posting_stats
           /\ pc' = "running"
           /\ ~saved'
           /\ <<job_idx', country_idx'>> # <<job_idx, country_idx>> ]_vars

\* a pair is skipped while storage holds its row from an earlier run
C4_Witness ==
    /\ pc = "running"
    /\ last_pair # <<>>
    /\ ~saved
    /\ raised = "none"
    /\ \E i \in DOMAIN job_posting_stats :
           /\ job_posting_stats[i].standard_job_id = last_pair[1]
           /\ job_posting_stats[i].country_code = StoredCountry(last_pair[2])

\* C5: no stored row has an absent country_code; the row of a per-country
\* pair carries that country code and the row of a World pair carries the
\* literal "World".
C5_CountryNeverAbsent ==
    /\ \A i \in DOMAIN job_posting_stats : job_posting_stats[i].country_code # None
    /\ (saved /\ last_pair # <<>>) =>
           \E i \in DOMAIN job_posting_stats :
               /\ job_posting_stats[i].standard_job_id = last_pair[1]
               /\ job_posting_stats[i].country_code =
                      (IF last_pair[2] = None THEN "World" ELSE last_pair[2])

\* a World pair has just been saved
C5_Witness ==
    /\ saved
    /\ last_pair # <<>>
    /\ last_pair[2] = None
    /\ \E i \in DOMAIN job_posting_stats : job_posting_stats[i].country_code = "World"

\* C6: when a storage operation fails while a pair is processed, the run
\* aborts there: the rows committed for the earlier pairs stay as committed,
\* the uncommitted work of the pair is rolled back, no later pair is
\* fetched, computed or upserted, and the run never reports completion.
C6_FailureAborts ==
    [][ /\ (pc = "running" /\ raised' # "none") =>
              /\ pc' = "failed"
              /\ job_posting_stats' = job_posting_stats
              /\ session'.rollbacks = 1
              /\ total_saved' = total_saved
        /\ (pc = "failed" /\ runs' = runs) =>
              /\ pc' = "failed"
              /\ job_posting_stats' = job_posting_stats
              /\ processed_pairs' = processed_pairs
              /\ <<days_to_hire_values', stats', saved'>> =
                     <<days_to_hire_values, stats, saved>>
              /\ <<total_processed', total_saved'>> = <<total_processed, total_saved>>
      ]_vars

\* a commit failed after earlier pairs of the run had been committed
C6_Witness ==
    /\ pc = "failed"
    /\ raised = "commit"
    /\ total_saved >= 1
    /\ Len(job_posting_stats) = total_saved
    /\ job_idx <= Len(standard_jobs)

KnownJobs == {job_posting[i].standard_job_id : i \in DOMAIN job_posting}
KnownCountries ==
    {job_posting[i].country_code : i \in DOMAIN job_posting} \ {None}

\* both loops of main have ended and the totals are about to be reported;
\* the source table is the one the run has read
LoopsDone == pc = "running" /\ job_idx > Len(standard_jobs)

\* the pairs of a scope; the World pair of job j is <<j, None>>
ScopePairs(standard_job_id, country_code) ==
    IF standard_job_id # None /\ country_code # None
    THEN {<<standard_job_id, country_code>>}
    ELSE IF standard_job_id # None
    THEN {<<standard_job_id, c>> : c \in KnownCountries \cup {None}}
    ELSE {<<j, c>> : j \in KnownJobs, c \in KnownCountries \cup {None}}

\* C7: the pairs a run processes are those of its scope (job and country:
\* that one pair and no World pair; job only: the job with every known
\* country plus its World pair; nothing: every known job with every known
\* country plus its World pair), each processed exactly once.
C7_ScopePairs ==
    (LoopsDone /\ ~(args.standard_job_id = None /\ args.country_code # None)) =>
        /\ {processed_pairs[i] : i \in DOMAIN processed_pairs} =
               ScopePairs(args.standard_job_id, args.country_code)
        /\ \A i, k \in DOMAIN processed_pairs :
               processed_pairs[i] = processed_pairs[k] => i = k

\* an unrestricted run over two jobs and two countries has completed
C7_Witness ==
    /\ LoopsDone
    /\ Unrestricted
    /\ Len(processed_pairs) = 6
    /\ Cardinality(KnownJobs) = 2
    /\ Cardinality(KnownCountries) = 2

\* the number of postings of a job with recorded duration d, in one country
\* or (country None) whatever their country
RefPostingCount(standard_job_id, country_code, d) ==
    Cardinality({i \in DOMAIN job_posting :
                    /\ job_posting[i].standard_job_id = standard_job_id
                    /\ job_posting[i].days_to_hire = <<d>>
                    /\ country_code # None =>
                           job_posting[i].country_code = country_code})

\* C8: the raw sample of a World pair is the multiset of the recorded
\* durations of all postings of the job, whatever their country and those
\* without a country included; the raw sample of a per-country pair holds
\* only the recorded durations of the job's postings in that country.
C8_RawSample ==
    (pc = "running" /\ last_pair # <<>>) =>
        \A d \in 0..MaxVal :
            Cardinality({i \in DOMAIN days_to_hire_values : days_to_hire_values[i] = d})
                = RefPostingCount(last_pair[1], last_pair[2], d)

\* a World sample drawn from two countries and a posting without country,
\* fetched after a per-country pair of the job was skipped
C8_Witness ==
    /\ pc = "running"
    /\ last_pair = <<"j1", None>>
    /\ Len(days_to_hire_values) = 4
    /\ total_saved < total_processed - 1

\* the n-th pair of a run in the order of the lists main has built: the
\* countries of a job in their order, then its World pair if no country was
\* requested, then the next job
ExpectedPair(n) ==
    LET per_job == Len(countries) + (IF args.country_code = None THEN 1 ELSE 0)
        j == ((n - 1) \div per_job) + 1
        c == ((n - 1) % per_job) + 1
    IN <<standard_jobs[j], IF c <= Len(countries) THEN countries[c] ELSE None>>

\* C12: within a run the pairs are processed in a fixed order (jobs in the
\* order supplied; for each job its countries in the order supplied, then
\* its World pair, before any pair of the next job), and a pair's fetch,
\* compute and committed upsert are complete before the next pair begins.
C12_TraversalOrder ==
    /\ \A n \in DOMAIN processed_pairs : processed_pairs[n] = ExpectedPair(n)
    /\ total_processed = Len(processed_pairs)
    /\ processed_pairs # <<>> =>
          /\ last_pair = processed_pairs[Len(processed_pairs)]
          /\ saved =>
                \E i \in DOMAIN job_posting_stats :
                    /\ job_posting_stats[i].standard_job_id = last_pair[1]
                    /\ job_posting_stats[i].country_code = StoredCountry(last_pair[2])
                    /\ RowSummary(job_posting_stats[i]) = stats[1]

\* an unrestricted run over two jobs and two countries has gone from the
\* World pair of the first job to the pairs of the second, and saved the last
C12_Witness ==
    /\ LoopsDone
    /\ Len(processed_pairs) = 6
    /\ processed_pairs[3][2] = None
    /\ processed_pairs[4][1] # processed_pairs[3][1]
    /\ saved

\* C14: an upsert for key k changes nothing outside the row of k: rows of
\* other keys are unchanged, and a row that is updated keeps its identifier,
\* job_category_id and country_code; a created row gets an unused identifier.
C14_UpsertFrame ==
    [][ (PairStep /\ saved') =>
          LET k == <<last_pair'[1], StoredCountry(last_pair'[2])>>
              old == job_posting_stats
              new == job_posting_stats'
          IN /\ Len(new) >= Len(old)
             /\ \A i \in DOMAIN old :
                   /\ new[i].id = old[i].id
                   /\ new[i].standard_job_id = old[i].standard_job_id
                   /\ new[i].country_code = old[i].country_code
                   /\ <<old[i].standard_job_id, old[i].country_code>> # k
                          => new[i] = old[i]
             /\ \A i \in DOMAIN new \ DOMAIN old :
                   /\ <<new[i].standard_job_id, new[i].country_code>> = k
                   /\ \A m \in DOMAIN old : old[m].id # new[i].id ]_vars

\* the only save of the run so far was an update of a row that an earlier
\* run created before other rows
C14_Witness ==
    /\ pc = "running"
    /\ saved
    /\ total_saved = 1
    /\ \E i, m \in DOMAIN job_posting_stats :
           /\ i < m
           /\ job_posting_stats[i].standard_job_id = last_pair[1]
           /\ job_posting_stats[i].country_code = last_pair[2]
           /\ RowSummary(job_posting_stats[i]) = stats[1]
           /\ <<job_posting_stats[m].standard_job_id, job_posting_stats[m].country_code>>
                  # <<last_pair[1], last_pair[2]>>

\* the rows of the World aggregates
WorldRows(table) == SelectSeq(table, LAMBDA row : row.country_code = "World")

\* C17: the World pair of a job is processed in a run iff the run has no
\* country restriction; a run restricted to a country only processes exactly
\* (j, that country) for every known job j and no World pair, so it never
\* creates or updates a World row.
C17_WorldOnlyWithoutCountry ==
    [][ /\ (PairStep /\ last_pair'[2] = None) => args.country_code = None
        /\ LoopsDone' =>
              /\ \A i \in DOMAIN standard_jobs' :
                    (\E n \in DOMAIN processed_pairs' :
                        processed_pairs'[n] = <<standard_jobs'[i], None>>)
                    <=> args'.country_code = None
              /\ (args'.standard_job_id = None /\ args'.country_code # None) =>
                    {processed_pairs'[n] : n \in DOMAIN processed_pairs'} =
                        {<<j, args'.country_code>> : j \in KnownJobs'}
        /\ (pc = "running" /\ args.standard_job_id = None /\ args.country_code # None) =>
              WorldRows(job_posting_stats') = WorldRows(job_posting_stats) ]_vars

\* the jobs and the countries (None for World) of the scope of the run
ScopeJobs == IF args.standard_job_id # None THEN {args.standard_job_id} ELSE KnownJobs
ScopeCountries ==
    IF args.country_code # None THEN {args.country_code} ELSE KnownCountries \cup {None}

\* the pair fails the threshold on the source table the run reads
FailsThreshold(pair) ==
    LET values == get_job_postings_data(job_posting, pair[1], pair[2])
    IN \/ Len(values) < args.min_threshold
       \/ Cardinality(RefRetained(values)) < args.min_threshold

Commits == {n \in DOMAIN session.calls : session.calls[n] = "commit"}

\* C13: always 0 <= total_saved <= total_processed; when the run completes,
\* total_processed is the number of pairs of the scope, total_saved the
\* number of upserts committed in the run, and the reported skipped count
\* total_processed - total_saved the number of pairs that failed the threshold.
C13_Totals ==
    /\ 0 <= total_saved
    /\ total_saved <= total_processed
    /\ LoopsDone =>
          /\ total_processed = Cardinality(ScopeJobs) * Cardinality(ScopeCountries)
          /\ total_saved = Cardinality(Commits)
          /\ total_processed - total_saved =
                 Cardinality({n \in DOMAIN processed_pairs :
                                 FailsThreshold(processed_pairs[n])})

\* an unrestricted run ends with saved and skipped pairs
C13_Witness ==
    /\ LoopsDone
    /\ Unrestricted
    /\ total_saved >= 2
    /\ total_processed - total_saved >= 2

Terminated == pc \in {"completed", "failed"}

\* C19: every run terminates, completed (all pairs processed) or aborted by
\* a propagated failure; on both paths the session is closed exactly once,
\* as the last call, and on the abort path the rollback comes before it.
C19_RunTerminates ==
    /\ [](pc = "running" =>
            /\ session.open
            /\ \A n \in DOMAIN session.calls : session.calls[n] = "commit")
    /\ [](Terminated =>
            /\ ~session.open
            /\ Cardinality({n \in DOMAIN session.calls : session.calls[n] = "close"}) = 1
            /\ session.calls[Len(session.calls)] = "close")
    /\ [](pc = "completed" =>
            /\ job_idx > Len(standard_jobs)
            /\ \A n \in DOMAIN session.calls : session.calls[n] # "rollback")
    /\ [](pc = "failed" =>
            /\ Len(session.calls) >= 2
            /\ session.calls[Len(session.calls) - 1] = "rollback"
            /\ Cardinality({n \in DOMAIN session.calls :
                                session.calls[n] = "rollback"}) = 1)
    /\ [](pc = "running" => <>Terminated)

\* a run has been aborted after two commits
C19_Witness ==
    /\ pc = "failed"
    /\ session.calls = <<"commit", "commit", "rollback", "close">>

\* C18: the raw-size pre-check never changes the outcome: a pair is saved
\* exactly when its trimmed sample_count is at least min_threshold, and the
\* storage after the pair is what the trimmed-count check alone produces.
C18_RawGateRedundant ==
    [][ (PairStep /\ raised' = "none") =>
          LET passes == Cardinality(RefRetained(days_to_hire_values'))
                            >= args.min_threshold
          IN /\ saved' <=> passes
             /\ ~passes => job_posting_stats' = job_posting_stats
             /\ passes =>
                   \E i \in DOMAIN job_posting_stats' :
                       /\ job_posting_stats'[i].standard_job_id = last_pair'[1]
                       /\ job_posting_stats'[i].country_code = StoredCountry(last_pair'[2])
                       /\ IsRefSummary(RowSummary(job_posting_stats'[i]),
                                       days_to_hire_values') ]_vars

\* the raw-size pre-check has rejected a non-empty sample
C18_Witness ==
    /\ pc = "running"
    /\ last_pair # <<>>
    /\ raised = "none"
    /\ stats = <<>>
    /\ ~saved
    /\ Len(days_to_hire_values) > 0
    /\ Len(days_to_hire_values) < args.min_threshold

----------------------------------------------------------------------------
(* calculate_stats on its own: every input list within the bounds, and the  *)
(* list of the documented trimming example                                  *)

RECURSIVE SeqsOfLen(_, _)
SeqsOfLen(n, S) ==
    IF n = 0 THEN {<<>>}
    ELSE {Append(q, v) : q \in SeqsOfLen(n - 1, S), v \in S}

TrimmingExample == <<1, 2, 3, 4, 5, 6, 7, 8, 9, 10>>

CalcInputs ==
    UNION {SeqsOfLen(n, 0..MaxVal) : n \in 0..MaxLen} \cup {TrimmingExample}

CalcInit ==
    /\ job_posting = <<>>
    /\ job_posting_stats = <<>>
    /\ next_uuid = 1
    /\ pc = "idle"
    /\ args = NoArgs
    /\ standard_jobs = <<>>
    /\ countries = <<>>
    /\ job_idx = 1
    /\ country_idx = 1
    /\ total_processed = 0
    /\ total_saved = 0
    /\ session = NoSession
    /\ runs = 0
    /\ last_pair = <<>>
    /\ days_to_hire_values \in CalcInputs
    /\ stats = <<>>
    /\ saved = FALSE
    /\ raised = "none"
    /\ processed_pairs = <<>>
    /\ full_runs = <<>>
    /\ api_response = <<>>
    /\ connections = NoConnections

CalcCall ==
    /\ stats = <<>>
    /\ stats' = <<calculate_stats(days_to_hire_values)>>
    /\ UNCHANGED <<job_posting, job_posting_stats, next_uuid, pc, args, standard_jobs,
                   countries, job_idx, country_idx, total_processed, total_saved,
                   session, runs, last_pair, days_to_hire_values, saved, raised,
                   processed_pairs, full_runs, api_response, connections>>

CalcNext == CalcCall

SpecCalc == CalcInit /\ [][CalcNext]_vars

----------------------------------------------------------------------------
(* Properties of calculate_stats (checked under SpecCalc) *)

\* C9: for every input list of non-negative integers the result of
\* calculate_stats has sample_count <= len(input); min_days <= avg_days <=
\* max_days when sample_count > 0; and min_days = avg_days = max_days = 0.0
\* when sample_count = 0.
C9_SummaryInvariants ==
    stats # <<>> =>
        LET r == stats[1]
        IN /\ r.count <= Len(days_to_hire_values)
           /\ r.count > 0 => FloatLeq(r.min_days, r.avg_days)
                              /\ FloatLeq(r.avg_days, r.max_days)
           /\ r.count = 0 => /\ r.min_days = Float(0)
                              /\ r.avg_days = Float(0)
                              /\ r.max_days = Float(0)

\* a result whose trimming removed something and whose bounds differ
C9_Witness ==
    /\ stats # <<>>
    /\ stats[1].count > 0
    /\ stats[1].count < Len(days_to_hire_values)
    /\ stats[1].min_days # stats[1].max_days

\* C10: calculate_stats equals the reference trimmed summary (inclusive
\* 10th..90th linear-interpolation percentile band; zeros when the input or
\* the retained set is empty); [1..10] gives (2.0, 5.5, 9.0, 8), [x] gives
\* (x, x, x, 1) and n identical values x give (x, x, x, n).
C10_ReferenceSummary ==
    stats # <<>> =>
        LET r == stats[1]
            values == days_to_hire_values
        IN /\ IsRefSummary(r, values)
           /\ values = TrimmingExample =>
                  r = StatsTuple([n |-> 2, d |-> 1], [n |-> 11, d |-> 2],
                                 [n |-> 9, d |-> 1], 8)
           /\ (values # <<>> /\ \A i \in DOMAIN values : values[i] = values[1]) =>
                  r = StatsTuple([n |-> values[1], d |-> 1], [n |-> values[1], d |-> 1],
                                 [n |-> values[1], d |-> 1], Len(values))

\* the documented example has been computed
C10_Witness ==
    /\ stats # <<>>
    /\ days_to_hire_values = TrimmingExample
    /\ stats[1].count = 8

\* C20 as claimed: for every non-empty input calculate_stats returns
\* sample_count >= 1, so the empty-retained-set branch is never taken for a
\* non-empty input.
C20_NeverDiscardsAll ==
    (stats # <<>> /\ Len(days_to_hire_values) > 0) => stats[1].count >= 1

\* C20 amended: calculate_stats returns sample_count = 0 exactly for the
\* empty input and for an input of two different values; every other
\* non-empty input keeps at least one value.
C20_DiscardsAllOnlyForTwoDistinct ==
    stats # <<>> =>
        LET values == days_to_hire_values
        IN (stats[1].count = 0) <=>
               \/ values = <<>>
               \/ Len(values) = 2 /\ values[1] # values[2]

\* an input of three or more different values has been trimmed to a
\* non-empty sample
C20_Witness ==
    /\ stats # <<>>
    /\ Len(days_to_hire_values) = 3
    /\ stats[1].count = 1

----------------------------------------------------------------------------
(* Properties of the read service, checked under SpecApi *)

\* the key a read request is answered from
RequestKey(request) == <<request.standard_job_id, StoredCountry(request.country_code)>>

\* the stored rows that carry a key
RowsOfKey(table, key) ==
    {i \in 1..Len(table) : <<table[i].standard_job_id, table[i].country_code>> = key}

\* C11: a read request for (job, country) answers with the fields of a stored
\* row whose key is (job, country), a request with no country being answered
\* from the key (job, World); when storage can be read it answers not-found
\* exactly when storage holds no row for the key, and then never with the
\* generic server error.
C11_ReadAnswer ==
    api_response # <<>> =>
        LET r == api_response[1]
            rows == RowsOfKey(job_posting_stats, RequestKey(r))
        IN /\ r.status \in {200, 404, 500}
           /\ r.status = 200 =>
                  \E i \in rows : r.body = <<DaysToHireStats(job_posting_stats[i])>>
           /\ r.status = 404 => rows = {} /\ r.body = <<>>
           /\ ~r.fault => (r.status = 404 <=> rows = {})
           /\ ~r.fault => r.status # 500

\* a request without a country answered not-found while storage holds rows
\* of other keys
C11_Witness ==
    /\ api_response # <<>>
    /\ api_response[1].status = 404
    /\ api_response[1].country_code = None
    /\ ~api_response[1].fault
    /\ job_posting_stats # <<>>

\* C16: after a run has saved the summary S for a key, a read request for that
\* key returns exactly the fields of S, whatever earlier runs saved for the key.
C16_ReadAfterSave ==
    (/\ api_response # <<>>
     /\ pc = "completed"
     /\ saved
     /\ stats # <<>>
     /\ ~api_response[1].fault
     /\ RequestKey(api_response[1]) = <<last_pair[1], StoredCountry(last_pair[2])>>)
    => /\ api_response[1].status = 200
       /\ api_response[1].body =
              <<[standard_job_id |-> last_pair[1],
                 country_code |-> StoredCountry(last_pair[2]),
                 min_days |-> stats[1].min_days,
                 avg_days |-> stats[1].avg_days,
                 max_days |-> stats[1].max_days,
                 job_postings_number |-> stats[1].count]>>

----------------------------------------------------------------------------
(* A run that processes its pairs concurrently: every pair is a task with a
   storage connection of its own, and the steps of process_job_postings and
   save_stats of different tasks interleave.  A connection reads committed
   rows; its assignments and its add stay in its session until its commit. *)

MaxConcRuns == 2
\* the largest number of pairs a run processes concurrently
MaxTasks == 3

\* the number of pairs of the run
NPairs(jobs, ctrs, country_code) ==
    Len(jobs) * (Len(ctrs) + (IF country_code = None THEN 1 ELSE 0))

\* the stats table listed by row identifier
InsertById(table, row) ==
    SelectSeq(table, LAMBDA r : r.id < row.id) \o <<row>>
        \o SelectSeq(table, LAMBDA r : r.id > row.id)

\* the position of the row with an identifier, 0 for no row
IndexOfId(table, id) ==
    IF id = 0 THEN 0 ELSE CHOOSE i \in 1..Len(table) : table[i].id = id

\* some other task has looked its row up and not committed yet
OtherInFlight(n) ==
    \E m \in DOMAIN connections.tasks :
        m # n /\ connections.tasks[m].step \in {"write", "commit"}

\* lines 111-138, with one connection opened per pair
ConcStart(min_threshold, standard_job_id) ==
    /\ pc \in {"idle", "completed"}
    /\ runs < MaxConcRuns
    /\ runs' = runs + 1
    /\ args' = [min_threshold |-> min_threshold,
                standard_job_id |-> standard_job_id,
                country_code |-> None]
    /\ LET jobs == IF standard_job_id # None THEN <<standard_job_id>>
                   ELSE get_standard_job_ids(job_posting)
           ctrs == get_country_codes(job_posting)
       IN /\ NPairs(jobs, ctrs, None) <= MaxTasks
          /\ standard_jobs' = jobs
          /\ countries' = ctrs
          /\ connections' =
                 [start |-> job_posting_stats,
                  interleaved |-> FALSE,
                  tasks |-> [n \in 1..NPairs(jobs, ctrs, None) |->
                                [step |-> "lookup", existing_stats |-> 0]]]
    /\ pc' = "running"
    /\ UNCHANGED <<job_posting, job_posting_stats, next_uuid, job_idx, country_idx,
                   total_processed, total_saved, session, last_pair,
                   days_to_hire_values, stats, saved, raised, processed_pairs,
                   full_runs, api_response>>

\* lines 96-104 and 67-70 on the connection of pair n: fetch, compute, the
\* two threshold checks and the query of save_stats
ConcLookup(n) ==
    /\ pc = "running"
    /\ n \in DOMAIN connections.tasks
    /\ connections.tasks[n].step = "lookup"
    /\ LET pair == ExpectedPair(n)
       IN \E existing_stats \in first(job_posting_stats, pair[1], pair[2]) :
           LET r == process_job_postings(job_posting_stats, job_posting, pair[1],
                                         pair[2], args.min_threshold,
                                         existing_stats, next_uuid + n - 1)
           IN connections' =
                  [connections EXCEPT
                      !.interleaved = @ \/ OtherInFlight(n),
                      !.tasks[n] =
                          IF r.saved
                          THEN [step |-> "write",
                                existing_stats |->
                                    IF existing_stats = 0 THEN 0
                                    ELSE job_posting_stats[existing_stats].id]
                          ELSE [step |-> "done", existing_stats |-> 0]]
    /\ UNCHANGED <<job_posting, job_posting_stats, next_uuid, pc, args, standard_jobs,
                   countries, job_idx, country_idx, total_processed, total_saved,
                   session, runs, last_pair, days_to_hire_values, stats, saved,
                   raised, processed_pairs, full_runs, api_response>>

\* lines 73-76 or 80-89: the assignments or the add, kept in the session of
\* the connection
ConcWrite(n) ==
    /\ pc = "running"
    /\ n \in DOMAIN connections.tasks
    /\ connections.tasks[n].step = "write"
    /\ connections' = [connections EXCEPT !.interleaved = @ \/ OtherInFlight(n),
                                          !.tasks[n].step = "commit"]
    /\ UNCHANGED <<job_posting, job_posting_stats, next_uuid, pc, args, standard_jobs,
                   countries, job_idx, country_idx, total_processed, total_saved,
                   session, runs, last_pair, days_to_hire_values, stats, saved,
                   raised, processed_pairs, full_runs, api_response>>

\* lines 77 or 90: the commit writes the connection's change to the table
\* as it is committed by then
ConcCommit(n) ==
    /\ pc = "running"
    /\ n \in DOMAIN connections.tasks
    /\ connections.tasks[n].step = "commit"
    /\ LET pair == ExpectedPair(n)
           existing_stats == IndexOfId(job_posting_stats,
                                       connections.tasks[n].existing_stats)
           r == process_job_postings(job_posting_stats, job_posting, pair[1],
                                     pair[2], args.min_threshold,
                                     existing_stats, next_uuid + n - 1)
       IN job_posting_stats' =
              IF existing_stats # 0
              THEN session_commit(job_posting_stats, r.table)
              ELSE session_commit(job_posting_stats,
                                  InsertById(job_posting_stats, r.table[Len(r.table)]))
    /\ connections' = [connections EXCEPT !.interleaved = @ \/ OtherInFlight(n),
                                          !.tasks[n].step = "done"]
    /\ UNCHANGED <<job_posting, next_uuid, pc, args, standard_jobs, countries,
                   job_idx, country_idx, total_processed, total_saved, session,
                   runs, last_pair, days_to_hire_values, stats, saved, raised,
                   processed_pairs, full_runs, api_response>>

\* every task has ended
ConcDone ==
    /\ pc = "running"
    /\ \A n \in DOMAIN connections.tasks : connections.tasks[n].step = "done"

\* lines 159-162: the run ends
ConcCompleted ==
    /\ ConcDone
    /\ pc' = "completed"
    /\ next_uuid' = next_uuid + Len(connections.tasks)
    /\ connections' = NoConnections
    /\ UNCHANGED <<job_posting, job_posting_stats, args, standard_jobs, countries,
                   job_idx, country_idx, total_processed, total_saved, session,
                   runs, last_pair, days_to_hire_values, stats, saved, raised,
                   processed_pairs, full_runs, api_response>>

NextConc ==
    \/ \E t \in 0..MaxThreshold, j \in JobArgs : ConcStart(t, j)
    \/ \E n \in DOMAIN connections.tasks : ConcLookup(n)
    \/ \E n \in DOMAIN connections.tasks : ConcWrite(n)
    \/ \E n \in DOMAIN connections.tasks : ConcCommit(n)
    \/ ConcCompleted
    \/ PostingAdded

SpecConc == Init /\ [][NextConc]_vars

\* the stats table after the pairs are processed one after the other
RECURSIVE SequentialRun(_, _, _, _, _)
SequentialRun(table, source, pairs, min_threshold, uuid) ==
    IF pairs = <<>> THEN table
    ELSE LET pair == Head(pairs)
             existing_stats == CHOOSE i \in first(table, pair[1], pair[2]) : TRUE
             r == process_job_postings(table, source, pair[1], pair[2],
                                       min_threshold, existing_stats, uuid)
         IN SequentialRun(session_commit(table, r.table), source, Tail(pairs),
                          min_threshold, uuid + 1)

\* the number of rows of a table with given key and field values
RowCount(table, fields) ==
    Cardinality({i \in 1..Len(table) : DaysToHireStats(table[i]) = fields})

\* the same rows per key with the same field values
SameRows(a, b) ==
    /\ Len(a) = Len(b)
    /\ \A i \in 1..Len(a) :
           RowCount(a, DaysToHireStats(a[i])) = RowCount(b, DaysToHireStats(a[i]))

====
